---- MODULE Spec2Model ----
(***************************************************************************)
(* A model of zone.go: the Zone store of a DNS zone (Insert, Remove, Find) *)
(* with its two-tier locking, and the canonical key encoder toRadixName.   *)
(*                                                                         *)
(* A Go string is a sequence of one-character strings; Ord gives the byte  *)
(* of a character.  A goroutine is a process of Procs that issues calls    *)
(* and runs each call one step at a time.                                  *)
(***************************************************************************)
EXTENDS Integers, Sequences, FiniteSets, TLC

\* ------------------------------------------------------------------ bounds
NumProcs == 2
MaxInserts == 3
MaxRemoves == 2
MaxFinds == 1

Procs == 1..NumProcs
NoProc == 0

\* ----------------------------------------------------------------- strings
Ord(c) ==
    CASE c = "*" -> 42
      [] c = "-" -> 45
      [] c = "." -> 46
      [] c = "A" -> 65
      [] c = "a" -> 97
      [] c = "b" -> 98
      [] c = "o" -> 111
      [] c = "p" -> 112

\* strings.ToLower on one byte, then on a string
ToLowerChar(c) == IF c = "A" THEN "a" ELSE c

ToLower(s) == [i \in 1..Len(s) |-> ToLowerChar(s[i])]

\* byte-wise lexicographic order of two strings (Go's < on strings)
RECURSIVE StrLess(_, _)
StrLess(s, t) ==
    IF t = <<>> THEN FALSE
    ELSE IF s = <<>> THEN TRUE
    ELSE IF Ord(Head(s)) # Ord(Head(t)) THEN Ord(Head(s)) < Ord(Head(t))
    ELSE StrLess(Tail(s), Tail(t))

\* SplitLabels: the labels of a name, left to right; the root has none.
\* (The names of the model hold no escaped dots.)
RECURSIVE SplitAcc(_, _, _)
SplitAcc(d, cur, acc) ==
    IF d = <<>> THEN acc
    ELSE IF Head(d) = "." THEN SplitAcc(Tail(d), <<>>, Append(acc, cur))
    ELSE SplitAcc(Tail(d), Append(cur, Head(d)), acc)

SplitLabels(d) == IF d = <<".">> THEN <<>> ELSE SplitAcc(d, <<>>, <<>>)

\* IsSubDomain(parent, child): child is parent or lies below it
IsSubDomain(parent, child) ==
    LET p == SplitLabels(ToLower(parent))
        c == SplitLabels(ToLower(child))
    IN  /\ Len(p) <= Len(c)
        /\ SubSeq(c, Len(c) - Len(p) + 1, Len(c)) = p

\* the loop of toRadixName: s = strings.ToLower(l) + "." + s
RECURSIVE RadixLoop(_, _)
RadixLoop(labels, s) ==
    IF labels = <<>> THEN s
    ELSE RadixLoop(Tail(labels), ToLower(Head(labels)) \o <<".">> \o s)

toRadixName(d) ==
    IF d = <<".">> THEN <<".">>
    ELSE <<".">> \o RadixLoop(SplitLabels(d), <<>>)

\* len(name) > 1 && name[0] == '*' && name[1] == '.'
IsWildcardName(name) == Len(name) > 1 /\ name[1] = "*" /\ name[2] = "."

\* ------------------------------------------------------------ the records
TypeA == 1
TypeNS == 2
TypeRRSIG == 46
Types == {TypeA, TypeNS, TypeRRSIG}

Origin == <<"o", ".">>
NameWild == <<"*", ".", "o", ".">>
NameSub == <<"a", ".", "o", ".">>
NameSubUpper == <<"A", ".", "o", ".">>
NameOut == <<"a", ".", "p", ".">>

Names == {Origin, NameWild, NameSub, NameSubUpper, NameOut}

\* An RR is one record object: r == zr in the code is equality of these.
MkRR(n, t, cov, id) == [Name |-> n, Rrtype |-> t, TypeCovered |-> cov, Id |-> id]

RRs ==
    { MkRR(NameWild, TypeA, 0, 1),
      MkRR(NameWild, TypeA, 0, 2),
      MkRR(NameWild, TypeRRSIG, TypeA, 1),
      MkRR(Origin, TypeNS, 0, 1),
      MkRR(NameSub, TypeNS, 0, 1),
      MkRR(NameSubUpper, TypeA, 0, 1),
      MkRR(NameOut, TypeA, 0, 1) }

NoKey == <<>>
NoRR == MkRR(<<>>, 0, 0, 0)

\* ------------------------------------------------------------------ state
VARIABLES
    radix,      \* Zone.Radix: canonical key -> ZoneData
    Wildcard,   \* Zone.Wildcard
    zmutex,     \* Zone.mutex: [writer, readers]
    zdmutex,    \* ZoneData.mutex of each key: the holder, or NoProc
    pc,         \* where each goroutine is
    op,         \* the call each goroutine runs (or ran last)
    res,        \* what the last completed call returned
    local,      \* the locals of the running call
    lastRemove, \* the RR of the Remove that returned nil last, no call since
    doneNames,  \* owner names of the Inserts that returned nil
    nIns, nRem, nFind,   \* calls started so far
    encIn, encOut        \* toRadixName's inputs and outputs (SpecKey)

zoneVars == <<radix, Wildcard, zmutex, zdmutex>>
encVars == <<encIn, encOut>>
vars == <<radix, Wildcard, zmutex, zdmutex, pc, op, res, local, lastRemove,
          doneNames, nIns, nRem, nFind, encIn, encOut>>

\* newZoneData.  A map is a function on Types whose value at a key never
\* written is the empty list (the nil slice a Go map yields there).
newZoneData(s) ==
    [Name |-> s,
     RR |-> [t \in Types |-> <<>>],
     Signatures |-> [t \in Types |-> <<>>],
     NonAuth |-> FALSE]

NoOp == [kind |-> "none", rr |-> NoRR, name |-> <<>>]
NoRes == [kind |-> "none", err |-> "none", zd |-> NoKey]
Result(g, e, k) == [kind |-> op[g].kind, err |-> e, zd |-> k]
NoLocal == [zd |-> NoKey, w |-> 0]

ZoneInit ==
    /\ radix = <<>>
    /\ Wildcard = 0
    /\ zmutex = [writer |-> NoProc, readers |-> {}]
    /\ zdmutex = <<>>
    /\ pc = [g \in Procs |-> "idle"]
    /\ op = [g \in Procs |-> NoOp]
    /\ res = [g \in Procs |-> NoRes]
    /\ local = [g \in Procs |-> NoLocal]
    /\ lastRemove = NoRR
    /\ doneNames = {}
    /\ nIns = 0
    /\ nRem = 0
    /\ nFind = 0

Init ==
    /\ ZoneInit
    /\ encIn = <<>>
    /\ encOut = <<>>

\* ------------------------------------------------------------ the helpers
HasKey(key) == key \in DOMAIN radix

\* z.Radix.Find(key): the key found, or NoKey
RadixFind(key) == IF HasKey(key) THEN key ELSE NoKey

Running == \A g \in Procs : pc[g] # "panicked"

MutexFree == zmutex.writer = NoProc /\ zmutex.readers = {}

Unlocked == [zmutex EXCEPT !.writer = NoProc]

\* the call of g returns e (and the ZoneData of key k, for Find)
Return(g, e, k) ==
    /\ pc' = [pc EXCEPT ![g] = "idle"]
    /\ res' = [res EXCEPT ![g] = Result(g, e, k)]
    /\ op' = [op EXCEPT ![g] = NoOp]
    /\ local' = [local EXCEPT ![g] = NoLocal]
    /\ lastRemove' = IF op[g].kind = "Remove" /\ e = "nil" THEN op[g].rr ELSE NoRR

Goto(g, label) == pc' = [pc EXCEPT ![g] = label]

\* FileRR with the fallthrough of case TypeNS left out: an NS record sets
\* NonAuth and is filed nowhere
FileRRNoFallthrough(zd, r) ==
    IF r.Rrtype = TypeRRSIG
    THEN [zd EXCEPT !.Signatures[r.TypeCovered] = Append(@, r)]
    ELSE IF r.Rrtype = TypeNS
    THEN [zd EXCEPT !.NonAuth = IF r.Name # Origin THEN TRUE ELSE @]
    ELSE [zd EXCEPT !.RR[r.Rrtype] = Append(@, r)]

\* FileRR without the comparison with z.Origin: every NS record sets NonAuth
FileRRAnyNS(zd, r) ==
    IF r.Rrtype = TypeRRSIG
    THEN [zd EXCEPT !.Signatures[r.TypeCovered] = Append(@, r)]
    ELSE [zd EXCEPT !.RR[r.Rrtype] = Append(@, r),
                    !.NonAuth = IF r.Rrtype = TypeNS THEN TRUE ELSE @]

\* FileRR without the case for signatures: an RRSIG is filed in the list of
\* its own type
FileRRSigPlain(zd, r) ==
    [zd EXCEPT !.RR[r.Rrtype] = Append(@, r),
               !.NonAuth = IF r.Rrtype = TypeNS /\ r.Name # Origin
                           THEN TRUE ELSE @]

\* the switch of Insert: file r into the ZoneData zd
FileRR(zd, r) ==
    IF r.Rrtype = TypeRRSIG
    THEN [zd EXCEPT !.Signatures[r.TypeCovered] = Append(@, r)]
    ELSE [zd EXCEPT !.RR[r.Rrtype] = Append(@, r),
                    !.NonAuth = IF r.Rrtype = TypeNS /\ r.Name # Origin
                                THEN TRUE ELSE @]

\* --------------------------------------------------------------- the calls
Call(g, kind, r, n) ==
    /\ Running
    /\ pc[g] = "idle"
    /\ op' = [op EXCEPT ![g] = [kind |-> kind, rr |-> r, name |-> n]]
    /\ lastRemove' = IF kind = "Remove" /\ r = lastRemove THEN lastRemove ELSE NoRR
    /\ res' = [res EXCEPT ![g] = NoRes]
    /\ UNCHANGED <<zoneVars, local, doneNames, encVars>>

CallInsert(g, r) ==
    /\ nIns < MaxInserts
    /\ Call(g, "Insert", r, r.Name)
    /\ Goto(g, "i_check")
    /\ nIns' = nIns + 1
    /\ UNCHANGED <<nRem, nFind>>

CallRemove(g, r) ==
    /\ nRem < MaxRemoves
    /\ Call(g, "Remove", r, r.Name)
    /\ Goto(g, "r_lock")
    /\ nRem' = nRem + 1
    /\ UNCHANGED <<nIns, nFind>>

CallFind(g, n) ==
    /\ nFind < MaxFinds
    /\ Call(g, "Find", NoRR, n)
    /\ Goto(g, "f_rlock")
    /\ nFind' = nFind + 1
    /\ UNCHANGED <<nIns, nRem>>

\* ------------------------------------------------------------------ Insert
\* InsertCheck with the out-of-zone return left out
InsertCheckNoReturn(g) ==
    /\ Running
    /\ pc[g] = "i_check"
    /\ Goto(g, "i_lock")
    /\ UNCHANGED <<zoneVars, op, res, local, lastRemove, doneNames,
                   nIns, nRem, nFind, encVars>>

\* if !IsSubDomain(z.Origin, r.Header().Name) { return &Error{...} }
InsertCheck(g) ==
    /\ Running
    /\ pc[g] = "i_check"
    /\ IF IsSubDomain(Origin, op[g].rr.Name)
       THEN /\ Goto(g, "i_lock")
            /\ UNCHANGED <<op, res, local, lastRemove>>
       ELSE Return(g, "outofzone", NoKey)
    /\ UNCHANGED <<zoneVars, doneNames, nIns, nRem, nFind, encVars>>

\* InsertLock with z.mutex.Lock() not waiting for the lock to be free
InsertLockNoLock(g) ==
    /\ Running
    /\ pc[g] = "i_lock"
    /\ zmutex' = [zmutex EXCEPT !.writer = g]
    /\ LET key == toRadixName(op[g].rr.Name)
       IN  /\ local' = [local EXCEPT ![g].zd = RadixFind(key)]
           /\ Goto(g, IF HasKey(key) THEN "i_unlock"
                      ELSE IF IsWildcardName(op[g].rr.Name) THEN "i_wc_load"
                      ELSE "i_new")
    /\ UNCHANGED <<radix, Wildcard, zdmutex, op, res, lastRemove, doneNames,
                   nIns, nRem, nFind, encVars>>

\* key := toRadixName(...); z.mutex.Lock(); zd := z.Radix.Find(key)
InsertLock(g) ==
    /\ Running
    /\ pc[g] = "i_lock"
    /\ MutexFree
    /\ zmutex' = [zmutex EXCEPT !.writer = g]
    /\ LET key == toRadixName(op[g].rr.Name)
       IN  /\ local' = [local EXCEPT ![g].zd = RadixFind(key)]
           /\ Goto(g, IF HasKey(key) THEN "i_unlock"
                      ELSE IF IsWildcardName(op[g].rr.Name) THEN "i_wc_load"
                      ELSE "i_new")
    /\ UNCHANGED <<radix, Wildcard, zdmutex, op, res, lastRemove, doneNames,
                   nIns, nRem, nFind, encVars>>

\* z.Wildcard++ : the load
InsertWcLoad(g) ==
    /\ Running
    /\ pc[g] = "i_wc_load"
    /\ local' = [local EXCEPT ![g].w = Wildcard]
    /\ Goto(g, "i_wc_store")
    /\ UNCHANGED <<zoneVars, op, res, lastRemove, doneNames, nIns, nRem, nFind, encVars>>

\* z.Wildcard++ : the store
InsertWcStore(g) ==
    /\ Running
    /\ pc[g] = "i_wc_store"
    /\ Wildcard' = local[g].w + 1
    /\ Goto(g, "i_new")
    /\ UNCHANGED <<radix, zmutex, zdmutex, op, res, local, lastRemove, doneNames,
                   nIns, nRem, nFind, encVars>>

\* InsertNew with z.Radix.Insert(r.Header().Name, zd): the owner name as it
\* is written in place of its key
InsertNewRawKey(g) ==
    /\ Running
    /\ pc[g] = "i_new"
    /\ LET r == op[g].rr
           key == r.Name
       IN  /\ radix' = [k \in DOMAIN radix \cup {key} |->
                          IF k = key THEN FileRR(newZoneData(r.Name), r)
                          ELSE radix[k]]
           /\ zdmutex' = [k \in DOMAIN zdmutex \cup {key} |->
                            IF k = key THEN NoProc ELSE zdmutex[k]]
    /\ zmutex' = Unlocked
    /\ Return(g, "nil", NoKey)
    /\ doneNames' = doneNames \cup {op[g].rr.Name}
    /\ UNCHANGED <<Wildcard, nIns, nRem, nFind, encVars>>

\* zd := newZoneData(name); file r; z.Radix.Insert(key, zd); return nil
\* (the deferred z.mutex.Unlock() runs at the return)
InsertNew(g) ==
    /\ Running
    /\ pc[g] = "i_new"
    /\ LET r == op[g].rr
           key == toRadixName(r.Name)
       IN  /\ radix' = [k \in DOMAIN radix \cup {key} |->
                          IF k = key THEN FileRR(newZoneData(r.Name), r)
                          ELSE radix[k]]
           /\ zdmutex' = [k \in DOMAIN zdmutex \cup {key} |->
                            IF k = key THEN NoProc ELSE zdmutex[k]]
    /\ zmutex' = Unlocked
    /\ Return(g, "nil", NoKey)
    /\ doneNames' = doneNames \cup {op[g].rr.Name}
    /\ UNCHANGED <<Wildcard, nIns, nRem, nFind, encVars>>

\* InsertUnlock without z.mutex.Unlock(): the caller keeps the zone-wide lock
\* on its way to the ZoneData
InsertUnlockNoUnlock(g) ==
    /\ Running
    /\ pc[g] = "i_unlock"
    /\ Goto(g, "i_zdlock")
    /\ UNCHANGED <<radix, Wildcard, zmutex, zdmutex, op, res, local, lastRemove,
                   doneNames, nIns, nRem, nFind, encVars>>

\* z.mutex.Unlock() on the path of a name already there
InsertUnlock(g) ==
    /\ Running
    /\ pc[g] = "i_unlock"
    /\ zmutex' = Unlocked
    /\ Goto(g, "i_zdlock")
    /\ UNCHANGED <<radix, Wildcard, zdmutex, op, res, local, lastRemove, doneNames,
                   nIns, nRem, nFind, encVars>>

\* InsertZdLock without zd.mutex.Lock(): the caller goes on to the ZoneData
\* whoever holds its lock
InsertZdLockNoLock(g) ==
    /\ Running
    /\ pc[g] = "i_zdlock"
    /\ zdmutex' = [zdmutex EXCEPT ![local[g].zd] = g]
    /\ Goto(g, "i_file")
    /\ UNCHANGED <<radix, Wildcard, zmutex, op, res, local, lastRemove, doneNames,
                   nIns, nRem, nFind, encVars>>

\* zd.Value.(*ZoneData).mutex.Lock()
InsertZdLock(g) ==
    /\ Running
    /\ pc[g] = "i_zdlock"
    /\ zdmutex[local[g].zd] = NoProc
    /\ zdmutex' = [zdmutex EXCEPT ![local[g].zd] = g]
    /\ Goto(g, "i_file")
    /\ UNCHANGED <<radix, Wildcard, zmutex, op, res, local, lastRemove, doneNames,
                   nIns, nRem, nFind, encVars>>

\* the switch on the name already there; return nil (deferred Unlock)
InsertFile(g) ==
    /\ Running
    /\ pc[g] = "i_file"
    /\ radix' = [radix EXCEPT ![local[g].zd] = FileRR(@, op[g].rr)]
    /\ zdmutex' = [zdmutex EXCEPT ![local[g].zd] = NoProc]
    /\ Return(g, "nil", NoKey)
    /\ doneNames' = doneNames \cup {op[g].rr.Name}
    /\ UNCHANGED <<Wildcard, zmutex, nIns, nRem, nFind, encVars>>

\* ------------------------------------------------------------------ Remove
\* The loop  for i, zr := range list { if r == zr { list = append(list[:i],
\* list[i+1:]...); remove = true } }  on a list of the ZoneData.
\* range fixes the slice (array and length) once; arr is that array, n the
\* length of the list as stored now, i the index (from 1).  append moves the
\* tail down inside the same array, and list[i+1:] panics when i+1 exceeds
\* the list's length.
RECURSIVE ScanLoop(_, _, _, _, _)
ScanLoop(arr, n, i, r, removed) ==
    IF i > Len(arr)
    THEN [list |-> SubSeq(arr, 1, n), remove |-> removed, panic |-> FALSE]
    ELSE IF arr[i] # r
    THEN ScanLoop(arr, n, i + 1, r, removed)
    ELSE IF i > n
    THEN [list |-> SubSeq(arr, 1, n), remove |-> removed, panic |-> TRUE]
    ELSE ScanLoop([j \in 1..Len(arr) |->
                      IF j >= i /\ j < n THEN arr[j + 1] ELSE arr[j]],
                  n - 1, i + 1, r, TRUE)

Scan(list, r) == ScanLoop(list, Len(list), 1, r, FALSE)

\* the type the switch of Remove scans zd.RR under
ScanType(r) == IF r.Rrtype = TypeRRSIG THEN r.TypeCovered ELSE r.Rrtype

\* key := toRadixName(...); z.mutex.Lock(); zd := z.Radix.Find(key)
RemoveLock(g) ==
    /\ Running
    /\ pc[g] = "r_lock"
    /\ MutexFree
    /\ zmutex' = [zmutex EXCEPT !.writer = g]
    /\ LET key == toRadixName(op[g].rr.Name)
       IN  /\ local' = [local EXCEPT ![g].zd = RadixFind(key)]
           /\ Goto(g, IF HasKey(key) THEN "r_unlock" ELSE "r_absent")
    /\ UNCHANGED <<radix, Wildcard, zdmutex, op, res, lastRemove, doneNames,
                   nIns, nRem, nFind, encVars>>

\* if zd == nil { defer z.mutex.Unlock(); return nil }
RemoveAbsent(g) ==
    /\ Running
    /\ pc[g] = "r_absent"
    /\ zmutex' = Unlocked
    /\ Return(g, "nil", NoKey)
    /\ UNCHANGED <<radix, Wildcard, zdmutex, doneNames,
                   nIns, nRem, nFind, encVars>>

\* z.mutex.Unlock()
RemoveUnlock(g) ==
    /\ Running
    /\ pc[g] = "r_unlock"
    /\ zmutex' = Unlocked
    /\ Goto(g, "r_zdlock")
    /\ UNCHANGED <<radix, Wildcard, zdmutex, op, res, local, lastRemove, doneNames,
                   nIns, nRem, nFind, encVars>>

\* zd.Value.(*ZoneData).mutex.Lock()
RemoveZdLock(g) ==
    /\ Running
    /\ pc[g] = "r_zdlock"
    /\ zdmutex[local[g].zd] = NoProc
    /\ zdmutex' = [zdmutex EXCEPT ![local[g].zd] = g]
    /\ Goto(g, "r_scan")
    /\ UNCHANGED <<radix, Wildcard, zmutex, op, res, local, lastRemove, doneNames,
                   nIns, nRem, nFind, encVars>>

\* RemoveScan that prunes: a ZoneData whose lists are all empty after the
\* scan is taken out of the index
RemoveScanPrune(g) ==
    /\ Running
    /\ pc[g] = "r_scan"
    /\ LET r == op[g].rr
           key == local[g].zd
           t == ScanType(r)
           out == Scan(radix[key].RR[t], r)
           zd == [radix[key] EXCEPT !.RR[t] = out.list]
           empty == \A u \in Types : zd.RR[u] = <<>> /\ zd.Signatures[u] = <<>>
       IN  /\ radix' = IF empty
                       THEN [k \in DOMAIN radix \ {key} |-> radix[k]]
                       ELSE [radix EXCEPT ![key] = zd]
           /\ IF out.panic
              THEN /\ zdmutex' = [zdmutex EXCEPT ![key] = NoProc]
                   /\ pc' = [pc EXCEPT ![g] = "panicked"]
                   /\ res' = [res EXCEPT ![g] = Result(g, "panic", NoKey)]
                   /\ op' = [op EXCEPT ![g] = NoOp]
                   /\ lastRemove' = NoRR
                   /\ local' = [local EXCEPT ![g] = NoLocal]
              ELSE IF out.remove /\ IsWildcardName(r.Name)
              THEN /\ Goto(g, "r_dec_load")
                   /\ UNCHANGED <<zdmutex, op, res, local, lastRemove>>
              ELSE /\ zdmutex' = [zdmutex EXCEPT ![key] = NoProc]
                   /\ Return(g, "nil", NoKey)
    /\ UNCHANGED <<Wildcard, zmutex, doneNames, nIns, nRem, nFind, encVars>>

\* the switch and its loop, under the ZoneData's lock.  A panic unwinds the
\* call (the deferred Unlock runs) and ends the program; without a wildcard
\* decrement the call returns nil here.
RemoveScan(g) ==
    /\ Running
    /\ pc[g] = "r_scan"
    /\ LET r == op[g].rr
           key == local[g].zd
           t == ScanType(r)
           out == Scan(radix[key].RR[t], r)
       IN  /\ radix' = [radix EXCEPT ![key].RR[t] = out.list]
           /\ IF out.panic
              THEN /\ zdmutex' = [zdmutex EXCEPT ![key] = NoProc]
                   /\ pc' = [pc EXCEPT ![g] = "panicked"]
                   /\ res' = [res EXCEPT ![g] = Result(g, "panic", NoKey)]
                   /\ op' = [op EXCEPT ![g] = NoOp]
                   /\ lastRemove' = NoRR
                   /\ local' = [local EXCEPT ![g] = NoLocal]
              ELSE IF out.remove /\ IsWildcardName(r.Name)
              THEN /\ Goto(g, "r_dec_load")
                   /\ UNCHANGED <<zdmutex, op, res, local, lastRemove>>
              ELSE /\ zdmutex' = [zdmutex EXCEPT ![key] = NoProc]
                   /\ Return(g, "nil", NoKey)
    /\ UNCHANGED <<Wildcard, zmutex, doneNames, nIns, nRem, nFind, encVars>>

\* z.Wildcard-- : the load
RemoveDecLoad(g) ==
    /\ Running
    /\ pc[g] = "r_dec_load"
    /\ local' = [local EXCEPT ![g].w = Wildcard]
    /\ Goto(g, "r_dec_store")
    /\ UNCHANGED <<zoneVars, op, res, lastRemove, doneNames, nIns, nRem, nFind, encVars>>

\* z.Wildcard-- : the store
RemoveDecStore(g) ==
    /\ Running
    /\ pc[g] = "r_dec_store"
    /\ Wildcard' = local[g].w - 1
    /\ Goto(g, "r_clamp_load")
    /\ UNCHANGED <<radix, zmutex, zdmutex, op, res, local, lastRemove, doneNames,
                   nIns, nRem, nFind, encVars>>

\* if z.Wildcard < 0 : the load
RemoveClampLoad(g) ==
    /\ Running
    /\ pc[g] = "r_clamp_load"
    /\ local' = [local EXCEPT ![g].w = Wildcard]
    /\ Goto(g, "r_clamp_store")
    /\ UNCHANGED <<zoneVars, op, res, lastRemove, doneNames, nIns, nRem, nFind, encVars>>

\* { z.Wildcard = 0 }; return nil (the deferred Unlock of the ZoneData runs)
RemoveClampStore(g) ==
    /\ Running
    /\ pc[g] = "r_clamp_store"
    /\ Wildcard' = IF local[g].w < 0 THEN 0 ELSE Wildcard
    /\ zdmutex' = [zdmutex EXCEPT ![local[g].zd] = NoProc]
    /\ Return(g, "nil", NoKey)
    /\ UNCHANGED <<radix, zmutex, doneNames, nIns, nRem, nFind, encVars>>

\* -------------------------------------------------------------------- Find
\* z.mutex.RLock()
FindRLock(g) ==
    /\ Running
    /\ pc[g] = "f_rlock"
    /\ zmutex.writer = NoProc
    /\ zmutex' = [zmutex EXCEPT !.readers = @ \cup {g}]
    /\ Goto(g, "f_find")
    /\ UNCHANGED <<radix, Wildcard, zdmutex, op, res, local, lastRemove, doneNames,
                   nIns, nRem, nFind, encVars>>

\* zd := z.Radix.Find(toRadixName(s)); return (deferred RUnlock)
FindReturn(g) ==
    /\ Running
    /\ pc[g] = "f_find"
    /\ zmutex' = [zmutex EXCEPT !.readers = @ \ {g}]
    /\ Return(g, "nil", RadixFind(toRadixName(op[g].name)))
    /\ UNCHANGED <<radix, Wildcard, zdmutex, doneNames,
                   nIns, nRem, nFind, encVars>>

\* ------------------------------------------------------------- Predecessor
\* Radix.Predecessor(key) of the index: the greatest stored key strictly
\* below key in byte order, or NoKey when no stored key is below it
RadixPredecessor(key) ==
    LET below == {k \in DOMAIN radix : StrLess(k, key)}
    IN  IF below = {} THEN NoKey
        ELSE CHOOSE k \in below : \A j \in below : j = k \/ StrLess(j, k)

CallPredecessor(g, n) ==
    /\ nFind < MaxFinds
    /\ Call(g, "Predecessor", NoRR, n)
    /\ Goto(g, "p_rlock")
    /\ nFind' = nFind + 1
    /\ UNCHANGED <<nIns, nRem>>

\* z.mutex.RLock()
PredRLock(g) ==
    /\ Running
    /\ pc[g] = "p_rlock"
    /\ zmutex.writer = NoProc
    /\ zmutex' = [zmutex EXCEPT !.readers = @ \cup {g}]
    /\ Goto(g, "p_pred")
    /\ UNCHANGED <<radix, Wildcard, zdmutex, op, res, local, lastRemove, doneNames,
                   nIns, nRem, nFind, encVars>>

\* zd := z.Radix.Predecessor(toRadixName(s)); return (deferred RUnlock)
PredReturn(g) ==
    /\ Running
    /\ pc[g] = "p_pred"
    /\ zmutex' = [zmutex EXCEPT !.readers = @ \ {g}]
    /\ Return(g, "nil", RadixPredecessor(toRadixName(op[g].name)))
    /\ UNCHANGED <<radix, Wildcard, zdmutex, doneNames,
                   nIns, nRem, nFind, encVars>>

\* ------------------------------------------------------- the specification
Step(g) ==
    \/ \E r \in RRs : CallInsert(g, r)
    \/ \E r \in RRs : CallRemove(g, r)
    \/ \E n \in Names : CallFind(g, n)
    \/ InsertCheck(g)
    \/ InsertLock(g)
    \/ InsertWcLoad(g)
    \/ InsertWcStore(g)
    \/ InsertNew(g)
    \/ InsertUnlock(g)
    \/ InsertZdLock(g)
    \/ InsertFile(g)
    \/ RemoveLock(g)
    \/ RemoveAbsent(g)
    \/ RemoveUnlock(g)
    \/ RemoveZdLock(g)
    \/ RemoveScan(g)
    \/ RemoveDecLoad(g)
    \/ RemoveDecStore(g)
    \/ RemoveClampLoad(g)
    \/ RemoveClampStore(g)
    \/ FindRLock(g)
    \/ FindReturn(g)

Next == \E g \in Procs : Step(g)

Spec == Init /\ [][Next]_vars

\* concurrent callers of Insert alone
StepInsert(g) ==
    \/ \E r \in RRs : CallInsert(g, r)
    \/ InsertCheck(g)
    \/ InsertLock(g)
    \/ InsertWcLoad(g)
    \/ InsertWcStore(g)
    \/ InsertNew(g)
    \/ InsertUnlock(g)
    \/ InsertZdLock(g)
    \/ InsertFile(g)

NextInsert == \E g \in Procs : StepInsert(g)

SpecInsert == Init /\ [][NextInsert]_vars

\* one goroutine alone: the calls follow one another
NextSeq == Step(1)

SpecSeq == Init /\ [][NextSeq]_vars

\* one goroutine that fills the zone and asks for predecessors: owner names
\* with a label that is a prefix of another label and a byte below '.'
NameB == <<"b", ".", "o", ".">>
NameAB == <<"a", "b", ".", "o", ".">>
NameADashB == <<"a", "-", "b", ".", "o", ".">>

PredNames == {Origin, NameWild, NameSub, NameB, NameAB, NameADashB}

PredRRs == {MkRR(n, TypeA, 0, 1) : n \in PredNames}

StepPred(g) ==
    \/ \E r \in PredRRs : CallInsert(g, r)
    \/ \E n \in PredNames : CallPredecessor(g, n)
    \/ InsertCheck(g)
    \/ InsertLock(g)
    \/ InsertWcLoad(g)
    \/ InsertWcStore(g)
    \/ InsertNew(g)
    \/ InsertUnlock(g)
    \/ InsertZdLock(g)
    \/ InsertFile(g)
    \/ PredRLock(g)
    \/ PredReturn(g)

NextPred == StepPred(1)

SpecPred == Init /\ [][NextPred]_vars

\* concurrent callers of Insert and Remove on two wildcard names
NameWildSub == <<"*", ".", "a", ".", "o", ".">>

WildRRs == {MkRR(NameWild, TypeA, 0, 1), MkRR(NameWildSub, TypeA, 0, 1)}

StepWild(g) ==
    \/ \E r \in WildRRs : CallInsert(g, r)
    \/ \E r \in WildRRs : CallRemove(g, r)
    \/ InsertCheck(g)
    \/ InsertLock(g)
    \/ InsertWcLoad(g)
    \/ InsertWcStore(g)
    \/ InsertNew(g)
    \/ InsertUnlock(g)
    \/ InsertZdLock(g)
    \/ InsertFile(g)
    \/ RemoveLock(g)
    \/ RemoveAbsent(g)
    \/ RemoveUnlock(g)
    \/ RemoveZdLock(g)
    \/ RemoveScan(g)
    \/ RemoveDecLoad(g)
    \/ RemoveDecStore(g)
    \/ RemoveClampLoad(g)
    \/ RemoveClampStore(g)

NextWild == \E g \in Procs : StepWild(g)

SpecWild == Init /\ [][NextWild]_vars

\* concurrent callers of the four operations under fair scheduling: a call
\* started goes on as long as its next step can be taken (a runnable
\* goroutine runs again, a lock that stays free is obtained)
FairNames == {NameWild, NameSub}

FairRRs == {MkRR(NameWild, TypeA, 0, 1)}

Proceed(g) ==
    \/ InsertCheck(g)
    \/ InsertLock(g)
    \/ InsertWcLoad(g)
    \/ InsertWcStore(g)
    \/ InsertNew(g)
    \/ InsertUnlock(g)
    \/ InsertZdLock(g)
    \/ InsertFile(g)
    \/ RemoveLock(g)
    \/ RemoveAbsent(g)
    \/ RemoveUnlock(g)
    \/ RemoveZdLock(g)
    \/ RemoveScan(g)
    \/ RemoveDecLoad(g)
    \/ RemoveDecStore(g)
    \/ RemoveClampLoad(g)
    \/ RemoveClampStore(g)
    \/ FindRLock(g)
    \/ FindReturn(g)
    \/ PredRLock(g)
    \/ PredReturn(g)

StepFair(g) ==
    \/ \E r \in FairRRs : CallInsert(g, r)
    \/ \E r \in FairRRs : CallRemove(g, r)
    \/ \E n \in FairNames : CallFind(g, n)
    \/ \E n \in FairNames : CallPredecessor(g, n)
    \/ Proceed(g)

NextFair == \E g \in Procs : StepFair(g)

SpecFair ==
    /\ Init
    /\ [][NextFair]_vars
    /\ \A g \in Procs : WF_vars(Proceed(g))

\* the same callers with no assumption on the scheduling
SpecConc == Init /\ [][NextFair]_vars

\* ------------------------------------------------- toRadixName on its own
\* Names of the zone "o." for the key encoder: labels with '-' and '*'
\* (bytes below '.'), a label that is a prefix of another, upper case, and
\* names one and two labels below the origin.
KeyNames ==
    { <<"o", ".">>,
      <<"a", ".", "o", ".">>,
      <<"A", ".", "o", ".">>,
      <<"b", ".", "o", ".">>,
      <<"a", "b", ".", "o", ".">>,
      <<"a", "-", "b", ".", "o", ".">>,
      <<"*", ".", "o", ".">>,
      <<"a", ".", "a", ".", "o", ".">>,
      <<"b", ".", "a", ".", "o", ".">>,
      <<"*", ".", "a", ".", "o", ".">> }

InitKey ==
    /\ ZoneInit
    /\ encIn \in KeyNames \X KeyNames
    /\ encOut = <<>>

\* key := toRadixName(name), for the two names
Encode ==
    /\ encOut = <<>>
    /\ encOut' = <<toRadixName(encIn[1]), toRadixName(encIn[2])>>
    /\ UNCHANGED <<zoneVars, pc, op, res, local, lastRemove, doneNames,
                   nIns, nRem, nFind, encIn>>

NextKey == Encode

SpecKey == InitKey /\ [][NextKey]_vars

\* =================================================================== claims
Range(f) == {f[i] : i \in DOMAIN f}

\* the list of zd that Insert files r into
ListOf(zd, r) ==
    IF r.Rrtype = TypeRRSIG THEN zd.Signatures[r.TypeCovered] ELSE zd.RR[r.Rrtype]

InZone(r) == IsSubDomain(Origin, r.Name)

\* goroutine g takes a step / the call of g returns in this step
Acts(g) == pc'[g] # pc[g]
Returns(g) == pc[g] # "idle" /\ pc'[g] = "idle"

\* C1: an Insert of an RR whose owner name is neither the origin nor below
\* it returns the out-of-zone error at once, and no step of that call
\* changes the index (keys, every list, every NonAuth flag), the Wildcard
\* counter or a lock; the name's key is not in the index afterwards.
C1_OutOfZoneInsertChangesNothing ==
    [][\A g \in Procs :
         (op[g].kind = "Insert" /\ ~InZone(op[g].rr) /\ Acts(g)) =>
            /\ pc'[g] = "idle"
            /\ res'[g].err = "outofzone"
            /\ radix' = radix
            /\ Wildcard' = Wildcard
            /\ zmutex' = zmutex
            /\ zdmutex' = zdmutex
            /\ toRadixName(op[g].rr.Name) \notin DOMAIN radix']_vars

C1_Witness ==
    \E g \in Procs :
        /\ pc[g] = "idle"
        /\ res[g].kind = "Insert"
        /\ res[g].err = "outofzone"
        /\ Wildcard > 0
        /\ Cardinality(DOMAIN radix) > 1

\* C2: when an Insert of an in-zone RR r with owner name N returns nil,
\* Find(N) is not absent and the ZoneData it finds holds r in the list of
\* r's type (the signature list of the covered type for an RRSIG).
C2_InsertThenFind ==
    [][\A g \in Procs :
         (op[g].kind = "Insert" /\ Returns(g) /\ res'[g].err = "nil") =>
            LET r == op[g].rr
                key == toRadixName(r.Name)
            IN  /\ key \in DOMAIN radix'
                /\ r \in Range(ListOf(radix'[key], r))]_vars

C2_Witness ==
    \E g \in Procs :
        /\ pc[g] = "idle"
        /\ res[g].kind = "Insert"
        /\ res[g].err = "nil"
        /\ \E n \in doneNames :
              /\ toRadixName(n) \in DOMAIN radix
              /\ \E r \in RRs :
                    /\ r.Name = n
                    /\ r.Rrtype = TypeNS
                    /\ r \in Range(ListOf(radix[toRadixName(n)], r))

\* C3: the scan of Remove(r), for r of a plain type, leaves in r's list
\* exactly the entries that differ from r, in their order (no entry
\* identical to r stays), whenever the call does not panic.
C3_RemoveRemovesAllDuplicates ==
    [][\A g \in Procs :
         (/\ op[g].kind = "Remove"
          /\ op[g].rr.Rrtype # TypeRRSIG
          /\ pc[g] = "r_scan"
          /\ pc'[g] \notin {"r_scan", "panicked"}) =>
            LET r == op[g].rr
                key == local[g].zd
                Keep(x) == x # r
            IN  radix'[key].RR[r.Rrtype] = SelectSeq(radix[key].RR[r.Rrtype], Keep)]_vars

\* C4: Remove never fails: no call of Remove ends in a panic.
C4_RemoveNeverFails == \A g \in Procs : pc[g] # "panicked"

\* C5: the index holds exactly the keys of the owner names whose Insert
\* returned nil, under every interleaving of the callers (no insert of a new
\* key is lost or doubled); at most one caller at a time is in the section
\* that inserts a new key; and every Insert of an in-zone RR returns nil
\* with its name's key in the index.
InNewSection(g) == pc[g] \in {"i_wc_load", "i_wc_store", "i_new"}

C5_ConcurrentInsertsLand ==
    /\ [](DOMAIN radix = {toRadixName(n) : n \in doneNames})
    /\ [](\A g, h \in Procs : InNewSection(g) /\ InNewSection(h) => g = h)
    /\ [][\A g \in Procs :
            (op[g].kind = "Insert" /\ InZone(op[g].rr) /\ Returns(g)) =>
               /\ res'[g].err = "nil"
               /\ toRadixName(op[g].rr.Name) \in DOMAIN radix']_vars

C5_Witness ==
    /\ \A g \in Procs :
          pc[g] = "idle" /\ res[g].kind = "Insert" /\ res[g].err = "nil"
    /\ nIns = NumProcs
    /\ Cardinality(doneNames) = NumProcs
    /\ Cardinality(DOMAIN radix) = NumProcs

\* C6: with every call completed, Wildcard is the number of owner names of
\* the zone that begin with "*." and hold at least one record.
HoldsRecord(zd) ==
    \E t \in Types : zd.RR[t] # <<>> \/ zd.Signatures[t] # <<>>

WildcardNames ==
    {k \in DOMAIN radix : IsWildcardName(radix[k].Name) /\ HoldsRecord(radix[k])}

C6_WildcardCountsNames ==
    (\A g \in Procs : pc[g] = "idle") => Wildcard = Cardinality(WildcardNames)

\* C7: the Wildcard counter is never negative, in any state another
\* goroutine can read it in.
C7_WildcardNeverNegative == Wildcard >= 0

\* C8: a Remove(r) issued directly after a Remove(r) that returned nil
\* returns nil too and changes neither the index nor the Wildcard counter.
C8_RemoveIdempotent ==
    [][\A g \in Procs :
         (op[g].kind = "Remove" /\ op[g].rr = lastRemove /\ Acts(g)) =>
            /\ radix' = radix
            /\ Wildcard' = Wildcard
            /\ pc'[g] # "panicked"]_vars

\* C9: when Remove(r) of an RRSIG r returns, the Signatures list of r's
\* covered type at r's owner name no longer holds r.
C9_RemoveSignature ==
    [][\A g \in Procs :
         (op[g].kind = "Remove" /\ op[g].rr.Rrtype = TypeRRSIG /\ Returns(g)) =>
            LET r == op[g].rr
                key == toRadixName(r.Name)
            IN  key \in DOMAIN radix' =>
                   r \notin Range(radix'[key].Signatures[r.TypeCovered])]_vars

\* C10: toRadixName(A) < toRadixName(B) in byte order exactly when A comes
\* before B in the canonical order of DNSSEC: the lowercased labels compared
\* from the rightmost one, each as a byte string, a prefix first.
Reverse(q) == [i \in 1..Len(q) |-> q[Len(q) + 1 - i]]

RECURSIVE LabelsLess(_, _)
LabelsLess(x, y) ==
    IF y = <<>> THEN FALSE
    ELSE IF x = <<>> THEN TRUE
    ELSE IF Head(x) # Head(y) THEN StrLess(Head(x), Head(y))
    ELSE LabelsLess(Tail(x), Tail(y))

CanonLess(a, b) ==
    LabelsLess(Reverse(SplitLabels(ToLower(a))), Reverse(SplitLabels(ToLower(b))))

C10_CanonicalKeyOrder ==
    encOut # <<>> =>
        (StrLess(encOut[1], encOut[2]) <=> CanonLess(encIn[1], encIn[2]))

\* C11: when Predecessor(s) returns, it returns the ZoneData of the greatest
\* stored owner name strictly before s in the canonical order, absent when
\* no stored name is before s, and never the entry of s itself.
StoredBefore(s) == {k \in DOMAIN radix : CanonLess(radix[k].Name, s)}

C11_PredecessorIsCanonical ==
    [][\A g \in Procs :
         (op[g].kind = "Predecessor" /\ Returns(g)) =>
            LET s == op[g].name
                zd == res'[g].zd
            IN  /\ zd # toRadixName(s)
                /\ StoredBefore(s) = {} => zd = NoKey
                /\ StoredBefore(s) # {} =>
                      /\ zd \in StoredBefore(s)
                      /\ \A k \in StoredBefore(s) :
                            k = zd \/ CanonLess(radix[k].Name, radix[zd].Name)]_vars

\* C12: when an Insert of an NS record returns nil, NonAuth of the owner
\* name's ZoneData is false if the owner name is the origin and true if the
\* owner name is strictly below the origin, the name being new or stored
\* before; when an Insert of a record of another type returns nil, NonAuth of
\* the name's ZoneData is what it was before (false for a new name).
AtOrigin(n) == toRadixName(n) = toRadixName(Origin)

C13_NoLostWildcardUpdate ==
    (/\ \A g \in Procs : pc[g] = "idle"
     /\ nIns = 2
     /\ nRem = 1
     /\ DOMAIN radix = {toRadixName(NameWild), toRadixName(NameWildSub)})
    => Wildcard \in {1, 2}

\* C14: concurrent Inserts into one owner name lose no record and make one
\* ZoneData: at most one caller at a time is in the section that changes the
\* lists of a stored ZoneData, and it holds that ZoneData's lock; no step
\* drops a key, replaces a ZoneData or takes an entry out of a list (every
\* list only grows at its end); and each Insert that returns nil has put its
\* record at the end of its list, one entry longer than before.
IsPrefix(p, q) == Len(p) <= Len(q) /\ SubSeq(q, 1, Len(p)) = p

C14_SameNameInsertsAllLand ==
    /\ [](\A g, h \in Procs :
            (pc[g] = "i_file" /\ pc[h] = "i_file" /\ local[g].zd = local[h].zd)
               => g = h)
    /\ [](\A g \in Procs : pc[g] = "i_file" => zdmutex[local[g].zd] = g)
    /\ [][\A k \in DOMAIN radix :
            /\ k \in DOMAIN radix'
            /\ radix'[k].Name = radix[k].Name
            /\ \A t \in Types :
                  /\ IsPrefix(radix[k].RR[t], radix'[k].RR[t])
                  /\ IsPrefix(radix[k].Signatures[t], radix'[k].Signatures[t])]_vars
    /\ [][\A g \in Procs :
            (op[g].kind = "Insert" /\ Returns(g) /\ res'[g].err = "nil") =>
               LET r == op[g].rr
                   key == toRadixName(r.Name)
                   was == IF key \in DOMAIN radix
                          THEN ListOf(radix[key], r) ELSE <<>>
               IN  ListOf(radix'[key], r) = Append(was, r)]_vars

\* two callers, one Insert each, both into one name that was new: both
\* returned nil and the one ZoneData holds the two records
C14_Witness ==
    /\ \A g \in Procs : pc[g] = "idle"
    /\ nIns = 2
    /\ \E g, h \in Procs :
          /\ g # h
          /\ res[g].kind = "Insert" /\ res[g].err = "nil"
          /\ res[h].kind = "Insert" /\ res[h].err = "nil"
    /\ DOMAIN radix = {toRadixName(NameWild)}
    /\ Len(radix[toRadixName(NameWild)].RR[TypeA]) = 2

\* C15: no goroutine holds the zone-wide lock while it holds or waits for
\* the lock of a ZoneData (the zone-wide lock is released before the
\* ZoneData's lock is asked for), and no goroutine changes a ZoneData that
\* is already in the index while it holds the zone-wide lock.
HoldsZone(g) == zmutex.writer = g \/ g \in zmutex.readers
HoldsZd(g) == \E k \in DOMAIN zdmutex : zdmutex[k] = g
WaitsZd(g) == pc[g] \in {"i_zdlock", "r_zdlock"}

C15_TwoTierLocks ==
    /\ [](\A g \in Procs : HoldsZone(g) => ~HoldsZd(g) /\ ~WaitsZd(g))
    /\ [][\A g \in Procs :
            (Acts(g) /\ \E k \in DOMAIN radix : radix'[k] # radix[k])
               => ~HoldsZone(g)]_vars

\* both tiers in use at once: one goroutine is in the zone-wide critical
\* section while another, under a ZoneData's lock, is about to change it
C15_Witness ==
    \E g, h \in Procs :
        /\ g # h
        /\ zmutex.writer = g
        /\ pc[h] \in {"i_file", "r_scan"}
        /\ zdmutex[local[h].zd] = h

\* C16: under fair scheduling every call that was started returns, and the
\* goroutine that made it then holds no lock.
C16_EveryCallReturns ==
    \A g \in Procs :
        (pc[g] # "idle") ~> (pc[g] = "idle" /\ ~HoldsZone(g) /\ ~HoldsZd(g))

\* C17: no step of any call takes a key out of the index (a Remove that
\* empties every list of a name leaves the name's key and ZoneData there),
\* and a Find of a name whose key is in the index keeps the zone's read lock
\* until it returns and returns that name's ZoneData, never absent, whatever
\* Insert and Remove calls run beside it.
C17_KeysStayVisible ==
    /\ [][DOMAIN radix \subseteq DOMAIN radix']_vars
    /\ [][\A g \in Procs :
            LET key == toRadixName(op[g].name)
            IN  (op[g].kind = "Find" /\ Acts(g) /\ key \in DOMAIN radix) =>
                   /\ key \in DOMAIN radix'
                   /\ Returns(g) => res'[g].zd = key /\ res'[g].zd # NoKey]_vars

\* a Find has returned the ZoneData of a name that a Remove had emptied
C17_Witness ==
    \E g \in Procs :
        /\ res[g].kind = "Find"
        /\ res[g].zd # NoKey
        /\ nRem > 0
        /\ \A t \in Types :
              /\ radix[res[g].zd].RR[t] = <<>>
              /\ radix[res[g].zd].Signatures[t] = <<>>

\* C18: an Insert(r) that returns nil has put r at the end of one list of
\* r's owner name, Signatures[TypeCovered] for an RRSIG and RR[type of r]
\* otherwise (NS included), which is one entry longer than before also when
\* it held r already; every other list of that name and every ZoneData of
\* every other name is as before; and no earlier step of the call changes
\* the index.
C18_InsertFilesInOneList ==
    [][\A g \in Procs :
         (op[g].kind = "Insert" /\ Acts(g)) =>
            IF Returns(g) /\ res'[g].err = "nil"
            THEN LET r == op[g].rr
                     key == toRadixName(r.Name)
                     was == IF key \in DOMAIN radix
                            THEN radix[key] ELSE newZoneData(r.Name)
                     now == radix'[key]
                     sig == r.Rrtype = TypeRRSIG
                 IN  /\ DOMAIN radix' = DOMAIN radix \cup {key}
                     /\ \A k \in DOMAIN radix \ {key} : radix'[k] = radix[k]
                     /\ \A t \in Types :
                           /\ now.RR[t] =
                                 IF ~sig /\ t = r.Rrtype
                                 THEN Append(was.RR[t], r) ELSE was.RR[t]
                           /\ now.Signatures[t] =
                                 IF sig /\ t = r.TypeCovered
                                 THEN Append(was.Signatures[t], r)
                                 ELSE was.Signatures[t]
            ELSE radix' = radix]_vars

\* one name holds the same record twice in its list and a signature in the
\* signature list of the covered type
C18_Witness ==
    /\ \A g \in Procs : pc[g] = "idle"
    /\ toRadixName(NameWild) \in DOMAIN radix
    /\ LET zd == radix[toRadixName(NameWild)]
       IN  /\ Len(zd.RR[TypeA]) = 2
           /\ zd.RR[TypeA][1] = zd.RR[TypeA][2]
           /\ Len(zd.Signatures[TypeA]) = 1
           /\ zd.RR[TypeRRSIG] = <<>>

\* C19: with every call completed, NonAuth of a ZoneData is true only if the
\* name holds at least one NS record and is not the origin; a delegation
\* name whose NS records have all been removed has NonAuth false.
C19_NonAuthFollowsNS ==
    (\A g \in Procs : pc[g] = "idle") =>
        \A k \in DOMAIN radix :
            radix[k].NonAuth =>
                radix[k].RR[TypeNS] # <<>> /\ k # toRadixName(Origin)

====
